---- MODULE Spec2Model ----
(***************************************************************************)
(* nu_plugin_msgpack: the conversion between nushell values and rmpv       *)
(* (MessagePack) values done by `to msgpack` (src/src/commands/to.rs) and  *)
(* `from msgpack` (src/src/commands/from.rs).                              *)
(*                                                                         *)
(* Machine integers exceed the range of the model checker's integers, so   *)
(* an integer is held as sign and magnitude, the magnitude being eight     *)
(* base-256 digits, most significant first.  Strings and binaries are      *)
(* sequences of bytes.                                                     *)
(***************************************************************************)
EXTENDS Integers, Sequences, FiniteSets, TLC

VARIABLES
    pc,             \* which command ran last: "idle", "to", "from", "to_from", "from_to"
    input,          \* the nu value piped into `to msgpack`, or NoValue
    to_brotli,      \* --brotli of `to msgpack`: None or Some(q)
    msgpack_value,  \* the rmpv value: produced by nu_to_rmpv, or read by `from msgpack`
    from_brotli,    \* --brotli of `from msgpack`
    output          \* the Result of the last conversion

vars == <<pc, input, to_brotli, msgpack_value, from_brotli, output>>

\* The longest list, record or map drawn as an input.
MaxLen == 3

(***************************************************************************)
(* Bytes and fixed-width integers                                          *)
(***************************************************************************)
Byte == 0..255

Zero8 == <<0, 0, 0, 0, 0, 0, 0, 0>>

\* a < b for two digit sequences of the same length
RECURSIVE MagLess(_, _)
MagLess(a, b) ==
    IF Len(a) = 0 THEN FALSE
    ELSE IF a[1] # b[1] THEN a[1] < b[1]
    ELSE MagLess(Tail(a), Tail(b))

MagLeq(a, b) == a = b \/ MagLess(a, b)

Num(neg, mag) == [neg |-> neg, mag |-> mag]

\* a number's order: a < b as integers
NumLess(a, b) ==
    IF a.neg /\ ~b.neg THEN TRUE
    ELSE IF ~a.neg /\ b.neg THEN FALSE
    ELSE IF a.neg THEN MagLess(b.mag, a.mag)
    ELSE MagLess(a.mag, b.mag)

NumLeq(a, b) == a = b \/ NumLess(a, b)

\* Two's complement negation of an 8-byte word: invert every byte, add one.
RECURSIVE AddOne(_)
AddOne(b) ==
    IF Len(b) = 0 THEN <<>>
    ELSE LET n == Len(b) IN
         IF b[n] = 255 THEN Append(AddOne(SubSeq(b, 1, n - 1)), 0)
         ELSE Append(SubSeq(b, 1, n - 1), b[n] + 1)

Negate64(b) == AddOne([i \in 1..Len(b) |-> 255 - b[i]])

\* the magnitude written as it stands, the sign dropped
i64_to_be_bytes_unsigned(n) == n.mag

\* i64::to_be_bytes
i64_to_be_bytes(n) == IF n.neg THEN Negate64(n.mag) ELSE n.mag

\* i64::from_be_bytes
i64_from_be_bytes(b) ==
    IF b[1] >= 128 THEN Num(TRUE, Negate64(b)) ELSE Num(FALSE, b)

\* u32::to_be_bytes: the four low digits
u32_to_be_bytes(n) == SubSeq(n.mag, 5, 8)

\* the four bytes taken for the high half of the word
u32_from_be_bytes_high(b) == Num(FALSE, b \o <<0, 0, 0, 0>>)

\* u32::from_be_bytes, as a number
u32_from_be_bytes(b) == Num(FALSE, <<0, 0, 0, 0>> \o b)

\* u64::from_be_bytes
u64_from_be_bytes(b) == Num(FALSE, b)

\* u32::try_from(i64): Ok exactly for 0 ..= u32::MAX
u32_try_from(n) ==
    IF ~n.neg /\ SubSeq(n.mag, 1, 4) = <<0, 0, 0, 0>>
    THEN [ok |-> TRUE, val |-> n]
    ELSE [ok |-> FALSE, val |-> n]

\* the shift by 32 bits instead of 34
shr32(n) == Num(FALSE, <<0, 0, 0, 0>> \o SubSeq(n.mag, 1, 4))

\* (data >> 34) as u32 of a u64
shr34(n) ==
    LET b == n.mag IN
    Num(FALSE, <<0, 0, 0, 0,
                 b[1] \div 4,
                 (b[1] % 4) * 64 + b[2] \div 4,
                 (b[2] % 4) * 64 + b[3] \div 4,
                 (b[3] % 4) * 64 + b[4] \div 4>>)

\* (data & 0x00000003ffffffff) as i64 of a u64
and_mask34(n) ==
    LET b == n.mag IN
    Num(FALSE, <<0, 0, 0, b[4] % 4, b[5], b[6], b[7], b[8]>>)

\* x mod m of a magnitude, for m small enough that m * 256 is a TLC integer
RECURSIVE MagMod(_, _, _)
MagMod(b, m, acc) ==
    IF Len(b) = 0 THEN acc
    ELSE MagMod(Tail(b), m, (acc * 256 + b[1]) % m)

\* i64::rem_euclid(m)
rem_euclid(n, m) ==
    LET r == MagMod(n.mag, m, 0) IN
    IF n.neg /\ r # 0 THEN m - r ELSE r

\* a magnitude below 2^31 as a TLC integer
RECURSIVE MagToInt(_, _)
MagToInt(b, acc) ==
    IF Len(b) = 0 THEN acc ELSE MagToInt(Tail(b), acc * 256 + b[1])

\* floor(x / m) of a magnitude whose quotient is below 2^31, m * 256 below 2^31
RECURSIVE MagDiv(_, _, _, _)
MagDiv(b, m, q, acc) ==
    IF Len(b) = 0 THEN q
    ELSE LET cur == acc * 256 + b[1] IN
         MagDiv(Tail(b), m, q * 256 + cur \div m, cur % m)

\* i64::div_euclid(m), for a quotient below 2^31
div_euclid(n, m) ==
    LET q == MagDiv(n.mag, m, 0, 0)
        r == MagMod(n.mag, m, 0)
    IN IF ~n.neg THEN q ELSE IF r = 0 THEN -q ELSE -q - 1

(***************************************************************************)
(* Text: ASCII digits, UTF-8                                               *)
(***************************************************************************)
\* the decimal digits of a natural number, as ASCII bytes
RECURSIVE DecDigits(_)
DecDigits(n) ==
    IF n < 10 THEN <<48 + n>> ELSE Append(DecDigits(n \div 10), 48 + (n % 10))

\* n in decimal, left-padded with zeros to at least w digits
RECURSIVE PadDigits(_, _)
PadDigits(n, w) ==
    IF w <= 1 THEN DecDigits(n)
    ELSE IF Len(DecDigits(n)) >= w THEN DecDigits(n)
    ELSE <<48>> \o PadDigits(n, w - 1)

\* one step of long division of a magnitude by ten: <<quotient digits, remainder>>
RECURSIVE MagDivTen(_, _, _)
MagDivTen(b, q, acc) ==
    IF Len(b) = 0 THEN <<q, acc>>
    ELSE LET cur == acc * 256 + b[1] IN
         MagDivTen(Tail(b), Append(q, cur \div 10), cur % 10)

RECURSIVE MagDecimal(_)
MagDecimal(b) ==
    LET qr == MagDivTen(b, <<>>, 0) IN
    IF qr[1] = [i \in 1..Len(b) |-> 0] THEN <<48 + qr[2]>>
    ELSE Append(MagDecimal(qr[1]), 48 + qr[2])

\* i64::to_string
i64_to_string(n) == IF n.neg THEN <<45>> \o MagDecimal(n.mag) ELSE MagDecimal(n.mag)

IsCont(b, i) == i <= Len(b) /\ b[i] >= 128 /\ b[i] <= 191

InRangeAt(b, i, lo, hi) == i <= Len(b) /\ b[i] >= lo /\ b[i] <= hi

\* core::str Utf8Chunks: the first character of a non-empty b, [valid, len]; an
\* invalid chunk is the longest prefix of a character, at least one byte
Utf8Scan(b) ==
    LET c == b[1] IN
    IF c < 128 THEN [valid |-> TRUE, len |-> 1]
    ELSE IF c >= 194 /\ c <= 223 THEN
        IF IsCont(b, 2) THEN [valid |-> TRUE, len |-> 2] ELSE [valid |-> FALSE, len |-> 1]
    ELSE IF c >= 224 /\ c <= 239 THEN
        IF ~(\/ c = 224 /\ InRangeAt(b, 2, 160, 191)
             \/ c >= 225 /\ c <= 236 /\ InRangeAt(b, 2, 128, 191)
             \/ c = 237 /\ InRangeAt(b, 2, 128, 159)
             \/ c >= 238 /\ InRangeAt(b, 2, 128, 191))
        THEN [valid |-> FALSE, len |-> 1]
        ELSE IF ~IsCont(b, 3) THEN [valid |-> FALSE, len |-> 2]
        ELSE [valid |-> TRUE, len |-> 3]
    ELSE IF c >= 240 /\ c <= 244 THEN
        IF ~(\/ c = 240 /\ InRangeAt(b, 2, 144, 191)
             \/ c >= 241 /\ c <= 243 /\ InRangeAt(b, 2, 128, 191)
             \/ c = 244 /\ InRangeAt(b, 2, 128, 143))
        THEN [valid |-> FALSE, len |-> 1]
        ELSE IF ~IsCont(b, 3) THEN [valid |-> FALSE, len |-> 2]
        ELSE IF ~IsCont(b, 4) THEN [valid |-> FALSE, len |-> 3]
        ELSE [valid |-> TRUE, len |-> 4]
    ELSE [valid |-> FALSE, len |-> 1]

\* std::str::from_utf8(b).is_ok()
RECURSIVE IsUtf8(_)
IsUtf8(b) ==
    IF Len(b) = 0 THEN TRUE
    ELSE LET s == Utf8Scan(b) IN
         s.valid /\ IsUtf8(SubSeq(b, s.len + 1, Len(b)))

\* String::from_utf8_lossy: every invalid chunk becomes U+FFFD
RECURSIVE from_utf8_lossy(_)
from_utf8_lossy(b) ==
    IF Len(b) = 0 THEN <<>>
    ELSE LET s == Utf8Scan(b)
             rest == from_utf8_lossy(SubSeq(b, s.len + 1, Len(b)))
         IN IF s.valid THEN SubSeq(b, 1, s.len) \o rest
            ELSE <<239, 191, 189>> \o rest

(***************************************************************************)
(* brotli, as the two calls use it: a stream is a header byte that depends *)
(* on the quality, the length of the data, and the data.                   *)
(***************************************************************************)
Clamp(q, lo, hi) == IF q < lo THEN lo ELSE IF q > hi THEN hi ELSE q

\* brotli::BrotliCompress(input, out, BrotliEncoderParams { quality, .. })
BrotliCompress(bytes, quality) ==
    [ok |-> TRUE, val |-> <<16 + Clamp(quality, 0, 11), Len(bytes)>> \o bytes]

\* brotli::BrotliDecompress(input, out)
BrotliDecompress(b) ==
    IF Len(b) >= 2 /\ b[1] >= 16 /\ b[1] <= 27 /\ b[2] = Len(b) - 2
    THEN [ok |-> TRUE, val |-> SubSeq(b, 3, Len(b))]
    ELSE [ok |-> FALSE, val |-> <<>>]

(***************************************************************************)
(* chrono                                                                  *)
(***************************************************************************)
\* DateTime::<Utc>::MAX_UTC.timestamp() = 8210266876799 (262142-12-31T23:59:59Z)
MaxTimestamp == Num(FALSE, <<0, 0, 7, 119, 154, 10, 107, 127>>)

\* DateTime::<Utc>::MIN_UTC.timestamp() = -8334601228800 (-262143-01-01T00:00:00Z)
MinTimestamp == Num(TRUE, <<0, 0, 7, 148, 140, 242, 18, 0>>)

\* 1_000_000_000 and 2_000_000_000
Billion == <<0, 0, 0, 0, 59, 154, 202, 0>>

TwoBillion == <<0, 0, 0, 0, 119, 53, 148, 0>>

\* DateTime::from_timestamp(secs, nsecs): None when the day is out of range, when
\* nsecs >= 2_000_000_000, or when nsecs >= 1_000_000_000 (a leap second) and the
\* second of the minute is not 59
from_timestamp(secs, nsecs) ==
    IF /\ NumLeq(MinTimestamp, secs)
       /\ NumLeq(secs, MaxTimestamp)
       /\ MagLess(nsecs.mag, TwoBillion)
       /\ (MagLess(nsecs.mag, Billion) \/ rem_euclid(secs, 86400) % 60 = 59)
    THEN [some |-> TRUE, val |-> <<"Date", [secs |-> secs, nanos |-> nsecs]>>]
    ELSE [some |-> FALSE, val |-> <<>>]

\* DateTime::timestamp and DateTime::timestamp_subsec_nanos
timestamp(date) == date[2].secs

timestamp_subsec_nanos(date) == date[2].nanos

\* DateTime::to_rfc3339_opts(SecondsFormat::Millis, true) of a UTC instant
to_rfc3339_millis(date) ==
    LET secs == date[2].secs
        nanos == MagToInt(date[2].nanos.mag, 0)
        days == div_euclid(secs, 86400)
        sod == rem_euclid(secs, 86400)
        z == days + 719468
        era == z \div 146097
        doe == z - era * 146097
        yoe == (doe - doe \div 1460 + doe \div 36524 - doe \div 146096) \div 365
        doy == doe - (365 * yoe + yoe \div 4 - yoe \div 100)
        mp == (5 * doy + 2) \div 153
        d == doy - (153 * mp + 2) \div 5 + 1
        m == IF mp < 10 THEN mp + 3 ELSE mp - 9
        y == yoe + era * 400 + (IF m <= 2 THEN 1 ELSE 0)
        leap == nanos >= 1000000000
        sec == (sod % 60) + (IF leap THEN 1 ELSE 0)
        ms == (IF leap THEN nanos - 1000000000 ELSE nanos) \div 1000000
        year == IF y >= 0 /\ y <= 9999 THEN PadDigits(y, 4)
                ELSE IF y < 0 THEN <<45>> \o PadDigits(-y, 4)
                ELSE <<43>> \o PadDigits(y, 4)
    IN year \o <<45>> \o PadDigits(m, 2) \o <<45>> \o PadDigits(d, 2) \o <<84>>
       \o PadDigits(sod \div 3600, 2) \o <<58>> \o PadDigits((sod \div 60) % 60, 2)
       \o <<58>> \o PadDigits(sec, 2) \o <<46>> \o PadDigits(ms, 3) \o <<90>>

(***************************************************************************)
(* Values.  A nushell value is [t, val] with t one of Nothing, Bool, Int,  *)
(* Float, String, Binary, List, Record, Date, Filesize, Duration, Range,   *)
(* Custom, LazyRecord, Closure, Error, CellPath; an rmpv value is [t, val] *)
(* with t one of rmpv.Nil, rmpv.Boolean, rmpv.Integer, rmpv.F32, rmpv.F64, *)
(* rmpv.String, rmpv.Binary, rmpv.Array, rmpv.Map, rmpv.Ext.  A float is   *)
(* <<m, e>>, the number m * 2^e with m odd or zero.  A record and a map    *)
(* are sequences of <<key, value>>.                                        *)
(***************************************************************************)
Ok(v) == <<"Ok", v>>

Err(label) == <<"Err", label>>

IsOk(r) == r[1] = "Ok"

None == [some |-> FALSE, val |-> 0]

Some(q) == [some |-> TRUE, val |-> q]

NoValue == <<"none", <<>>>>

Nu(t, val) == <<t, val>>

Rmpv(t, val) == <<t, val>>

\* Result<Vec<_>, _>::from_iter: the first error, or all the values
CollectResults(rs) ==
    IF \E i \in 1..Len(rs) : ~IsOk(rs[i])
    THEN rs[CHOOSE i \in 1..Len(rs) : ~IsOk(rs[i]) /\ \A j \in 1..(i - 1) : IsOk(rs[j])]
    ELSE Ok([i \in 1..Len(rs) |-> rs[i][2]])

\* the four-byte form chosen by the seconds alone, the nanoseconds dropped
date_payload_seconds_only(value) ==
    LET nanos == timestamp_subsec_nanos(value)
        seconds == timestamp(value)
        small == u32_try_from(seconds)
    IN IF small.ok
       THEN u32_to_be_bytes(small.val)
       ELSE u32_to_be_bytes(nanos) \o i64_to_be_bytes(seconds)

\* the Date arm of nu_to_rmpv: the payload of the timestamp extension
date_payload(value) ==
    LET nanos == timestamp_subsec_nanos(value)
        seconds == timestamp(value)
        small == u32_try_from(seconds)
    IN IF small.ok /\ nanos.mag = Zero8
       THEN u32_to_be_bytes(small.val)
       ELSE u32_to_be_bytes(nanos) \o i64_to_be_bytes(seconds)

RECURSIVE nu_to_rmpv(_, _)

\* the string written as a wire String whatever the compression
string_to_rmpv_plain(val, compression) == Ok(Rmpv("rmpv.String", val))

\* the String arm of nu_to_rmpv
string_to_rmpv(val, compression) ==
    IF compression.some
    THEN LET compressed == BrotliCompress(val, compression.val) IN
         IF ~compressed.ok THEN Err("Error compressing string with Brotli")
         ELSE nu_to_rmpv(Nu("Binary", compressed.val), None)
    ELSE Ok(Rmpv("rmpv.String", val))

\* pub fn nu_to_rmpv(value: Value, compression: Option<i32>)
nu_to_rmpv(value, compression) ==
    CASE value[1] = "Bool" -> Ok(Rmpv("rmpv.Boolean", value[2]))
      [] value[1] = "Int" -> Ok(Rmpv("rmpv.Integer", value[2]))
      [] value[1] = "Float" -> Ok(Rmpv("rmpv.F64", value[2]))
      [] value[1] = "String" -> string_to_rmpv(value[2], compression)
      [] value[1] = "Binary" -> Ok(Rmpv("rmpv.Binary", value[2]))
      [] value[1] = "Nothing" -> Ok(Rmpv("rmpv.Nil", <<>>))
      [] value[1] \in {"List", "Range"} ->
            LET vals == CollectResults(
                    [i \in 1..Len(value[2]) |-> nu_to_rmpv(value[2][i], compression)])
            IN IF IsOk(vals) THEN Ok(Rmpv("rmpv.Array", vals[2])) ELSE vals
      [] value[1] = "Record" ->
            LET vals == CollectResults(
                    [i \in 1..Len(value[2]) |-> nu_to_rmpv(value[2][i][2], compression)])
            IN IF IsOk(vals)
               THEN Ok(Rmpv("rmpv.Map",
                        [i \in 1..Len(value[2]) |->
                            <<Rmpv("rmpv.String", value[2][i][1]), vals[2][i]>>]))
               ELSE vals
      [] value[1] \in {"Filesize", "Duration"} -> Ok(Rmpv("rmpv.Integer", value[2]))
      [] value[1] = "Date" ->
            Ok(Rmpv("rmpv.Ext", [tag |-> -1, data |-> date_payload(value)]))
      [] value[1] \in {"Custom", "LazyRecord"} ->
            IF IsOk(value[2]) THEN nu_to_rmpv(value[2][2], compression)
            ELSE Err(value[2][2])
      [] OTHER -> Ok(Rmpv("rmpv.Nil", <<>>))

\* the cast that wraps instead of failing
as_i64_wrapping(n) ==
    IF n.neg \/ n.mag[1] < 128 THEN [some |-> TRUE, val |-> n]
    ELSE [some |-> TRUE, val |-> i64_from_be_bytes(n.mag)]

\* rmpv::Integer::as_i64: None above i64::MAX
as_i64(n) ==
    IF n.neg \/ n.mag[1] < 128 THEN [some |-> TRUE, val |-> n]
    ELSE [some |-> FALSE, val |-> n]

\* f64::to_string of the floats drawn as inputs
f64_to_string(f) ==
    CASE f = <<0, 0>> -> <<48>>
      [] f = <<3, -1>> -> <<49, 46, 53>>
      [] f = <<-1, 1>> -> <<45, 50>>
      [] f = <<16777217, 0>> -> <<49, 54, 55, 55, 55, 50, 49, 55>>
      [] f = <<13421773, -27>> ->
            <<48, 46, 49, 48, 48, 48, 48, 48, 48, 48, 49, 52, 57, 48, 49, 49, 54, 49, 50>>

\* nu_protocol::Value::coerce_string: Int, Float, String, Binary (valid UTF-8)
\* and Date have a text form
coerce_string(value) ==
    CASE value[1] = "Int" -> Ok(i64_to_string(value[2]))
      [] value[1] = "Float" -> Ok(f64_to_string(value[2]))
      [] value[1] = "String" -> Ok(value[2])
      [] value[1] = "Binary" ->
            IF IsUtf8(value[2]) THEN Ok(value[2]) ELSE Err("Can't convert to string")
      [] value[1] = "Date" -> Ok(to_rfc3339_millis(value))
      [] OTHER -> Err("Can't convert to string")

\* Record::push: appends whether or not the column exists
record_push(record, col, val) == Append(record, <<col, val>>)

\* the existing column removed and the new one appended
record_insert_last(record, col, val) ==
    Append(SelectSeq(record, LAMBDA e : e[1] # col), <<col, val>>)

\* nu_protocol::Record::insert: replaces the value of an existing column where it
\* stands, else appends
record_insert(record, col, val) ==
    IF \E i \in 1..Len(record) : record[i][1] = col
    THEN LET at == CHOOSE i \in 1..Len(record) :
                      record[i][1] = col /\ \A j \in 1..(i - 1) : record[j][1] # col
         IN [record EXCEPT ![at] = <<col, val>>]
    ELSE Append(record, <<col, val>>)

\* the tag read as an unsigned byte
unknown_ext_to_nu_unsigned(discriminant, data) ==
    Nu("Record",
       << <<<<101, 120, 116, 95, 116, 121, 112, 101>>,
            Nu("Int", Num(FALSE,
                          <<0, 0, 0, 0, 0, 0, 0,
                            IF discriminant < 0 THEN 256 + discriminant ELSE discriminant>>))>>,
          <<<<100, 97, 116, 97>>, Nu("Binary", data)>> >>)

\* fn unknown_ext_to_nu(discriminant: i8, data: &[u8])
unknown_ext_to_nu(discriminant, data) ==
    Nu("Record",
       << <<<<101, 120, 116, 95, 116, 121, 112, 101>>,
            Nu("Int", Num(discriminant < 0,
                          <<0, 0, 0, 0, 0, 0, 0,
                            IF discriminant < 0 THEN -discriminant ELSE discriminant>>))>>,
          <<<<100, 97, 116, 97>>, Nu("Binary", data)>> >>)

\* fn ext_timestamp_to_nu(data: &[u8])
ext_timestamp_to_nu(data) ==
    IF Len(data) \notin {4, 8, 12} THEN Err("Invalid timestamp length")
    ELSE LET nanos == CASE Len(data) = 4 -> Num(FALSE, Zero8)
                        [] Len(data) = 8 -> shr34(u64_from_be_bytes(data))
                        [] Len(data) = 12 -> u32_from_be_bytes(SubSeq(data, 1, 4))
             seconds == CASE Len(data) = 4 -> u32_from_be_bytes(data)
                          [] Len(data) = 8 -> and_mask34(u64_from_be_bytes(data))
                          [] Len(data) = 12 -> i64_from_be_bytes(SubSeq(data, 5, 12))
             date == from_timestamp(seconds, nanos)
         IN IF date.some THEN Ok(date.val) ELSE Err("Timestamp out of range")

\* the fallback giving the output buffer instead of the payload
binary_to_nu_buffer(b, decompress) ==
    IF decompress
    THEN LET decompressed == BrotliDecompress(b) IN
         IF decompressed.ok THEN Nu("String", from_utf8_lossy(decompressed.val))
         ELSE Nu("Binary", decompressed.val)
    ELSE Nu("Binary", b)

\* the Binary arm of rmpv_to_nu
binary_to_nu(b, decompress) ==
    IF decompress
    THEN LET decompressed == BrotliDecompress(b) IN
         IF decompressed.ok THEN Nu("String", from_utf8_lossy(decompressed.val))
         ELSE Nu("Binary", b)
    ELSE Nu("Binary", b)

RECURSIVE rmpv_to_nu(_, _)

\* the loop passing over a pair that fails instead of returning its error
RECURSIVE map_to_record_skip(_, _, _, _)
map_to_record_skip(map, i, record, decompress) ==
    IF i > Len(map) THEN Ok(Nu("Record", record))
    ELSE LET k == rmpv_to_nu(map[i][1], decompress)
             col == IF IsOk(k) THEN coerce_string(k[2]) ELSE k
             v == rmpv_to_nu(map[i][2], decompress)
         IN IF IsOk(col) /\ IsOk(v)
            THEN map_to_record_skip(map, i + 1, record_insert(record, col[2], v[2]),
                                    decompress)
            ELSE map_to_record_skip(map, i + 1, record, decompress)

\* the loop of the Map arm of rmpv_to_nu, from pair i on
RECURSIVE map_to_record(_, _, _, _)
map_to_record(map, i, record, decompress) ==
    IF i > Len(map) THEN Ok(Nu("Record", record))
    ELSE LET k == rmpv_to_nu(map[i][1], decompress) IN
         IF ~IsOk(k) THEN k
         ELSE LET col == coerce_string(k[2]) IN
              IF ~IsOk(col) THEN col
              ELSE LET v == rmpv_to_nu(map[i][2], decompress) IN
                   IF ~IsOk(v) THEN v
                   ELSE map_to_record(map, i + 1,
                                      record_insert(record, col[2], v[2]),
                                      decompress)

\* pub fn rmpv_to_nu(value: rmpv::ValueRef<'_>, decompress: bool)
rmpv_to_nu(value, decompress) ==
    CASE value[1] = "rmpv.Nil" -> Ok(Nu("Nothing", <<>>))
      [] value[1] = "rmpv.Boolean" -> Ok(Nu("Bool", value[2]))
      [] value[1] = "rmpv.Integer" ->
            LET i == as_i64(value[2]) IN
            IF i.some THEN Ok(Nu("Int", i.val)) ELSE Err("Integer overflow")
      [] value[1] \in {"rmpv.F32", "rmpv.F64"} -> Ok(Nu("Float", value[2]))
      [] value[1] = "rmpv.String" ->
            IF IsUtf8(value[2]) THEN Ok(Nu("String", value[2]))
            ELSE Err("Invalid UTF-8")
      [] value[1] = "rmpv.Binary" -> Ok(binary_to_nu(value[2], decompress))
      [] value[1] = "rmpv.Array" ->
            LET vs == CollectResults(
                    [i \in 1..Len(value[2]) |-> rmpv_to_nu(value[2][i], decompress)])
            IN IF IsOk(vs) THEN Ok(Nu("List", vs[2])) ELSE vs
      [] value[1] = "rmpv.Map" -> map_to_record(value[2], 1, <<>>, decompress)
      [] value[1] = "rmpv.Ext" ->
            IF value[2].tag = -1 THEN ext_timestamp_to_nu(value[2].data)
            ELSE Ok(unknown_ext_to_nu(value[2].tag, value[2].data))

(***************************************************************************)
(* The inputs drawn: shell values piped into `to msgpack`, and rmpv values *)
(* read by `from msgpack`.                                                 *)
(***************************************************************************)
SeqsUpTo(S, n) == UNION {[1..k -> S] : k \in 0..n}

\* a small integer as a number
N(i) ==
    LET a == IF i < 0 THEN -i ELSE i IN
    Num(i < 0, <<0, 0, 0, 0, a \div 16777216, (a \div 65536) % 256, (a \div 256) % 256, a % 256>>)

U32Max == Num(FALSE, <<0, 0, 0, 0, 255, 255, 255, 255>>)

TwoPow32 == Num(FALSE, <<0, 0, 0, 1, 0, 0, 0, 0>>)

I64Max == Num(FALSE, <<127, 255, 255, 255, 255, 255, 255, 255>>)

I64Min == Num(TRUE, <<128, 0, 0, 0, 0, 0, 0, 0>>)

TwoPow63 == Num(FALSE, <<128, 0, 0, 0, 0, 0, 0, 0>>)

U64Max == Num(FALSE, <<255, 255, 255, 255, 255, 255, 255, 255>>)

\* 2016-12-31T23:59:59Z, the second before a leap second
LeapSecond == N(1483228799)

IntSamples == {N(0), N(1), N(-1), N(16777217), U32Max, TwoPow32, I64Max, I64Min}

\* 0.0, 1.5, -2.0, 2^24 + 1 (no f32), and 0.1f32 widened
F64Samples == {<<0, 0>>, <<3, -1>>, <<-1, 1>>, <<16777217, 0>>, <<13421773, -27>>}

F32Samples == {<<0, 0>>, <<3, -1>>, <<13421773, -27>>}

\* "", "a", "b", "1", "16777217", and a two-byte character
TextSamples ==
    {<<>>, <<97>>, <<98>>, <<49>>, <<49, 54, 55, 55, 55, 50, 49, 55>>, <<195, 169>>}

\* bytes that are no UTF-8: a stray byte, a cut character
BadTextSamples == {<<255>>, <<97, 195>>}

\* brotli streams of "a", of "" and of bytes that are no UTF-8; bytes that are no stream
BinarySamples ==
    {<<>>, <<97>>, <<255>>, <<49>>, <<16, 1, 97>>, <<25, 0>>, <<20, 2, 97, 255>>,
     <<16, 2, 97>>, <<28, 1, 97>>}

DateSecs ==
    {N(0), N(1), N(-1), U32Max, TwoPow32, MaxTimestamp, MinTimestamp, LeapSecond}

DateNanos == {N(0), N(1), N(999999999), N(1000000000), N(1999999999)}

\* the instants a chrono DateTime holds: a leap second stands on second 59
NuDates ==
    {Nu("Date", [secs |-> sn[1], nanos |-> sn[2]]) :
        sn \in {x \in DateSecs \X DateNanos : from_timestamp(x[1], x[2]).some}}

NuScalars ==
    {Nu("Bool", TRUE), Nu("Bool", FALSE)}
    \cup {Nu("Int", n) : n \in IntSamples}
    \cup {Nu("Float", f) : f \in F64Samples}
    \cup {Nu("String", b) : b \in TextSamples}
    \cup {Nu("Binary", b) : b \in BinarySamples}
    \cup NuDates

\* the values that are no plain data
NuOthers ==
    {Nu("Nothing", <<>>), Nu("Closure", <<>>), Nu("Error", <<>>), Nu("CellPath", <<>>),
     Nu("Filesize", N(1)), Nu("Filesize", I64Max), Nu("Duration", N(-1)),
     Nu("Range", <<Nu("Int", N(0)), Nu("Int", N(1))>>),
     Nu("Range", <<Nu("Float", <<3, -1>>)>>),
     Nu("Custom", Ok(Nu("String", <<97>>))), Nu("Custom", Err("to_base_value failed")),
     Nu("LazyRecord", Ok(Nu("Record", <<<<<<97>>, Nu("String", <<98>>)>>>>))),
     Nu("LazyRecord", Err("collect failed"))}

NuElems ==
    {Nu("Int", N(1)), Nu("String", <<97>>), Nu("Binary", <<255>>), Nu("Bool", TRUE),
     Nu("Float", <<3, -1>>), Nu("Date", [secs |-> N(-1), nanos |-> N(1)])}

NuCols == {<<97>>, <<98>>}

NuFields == {Nu("Int", N(1)), Nu("String", <<98>>), Nu("Date", [secs |-> N(1), nanos |-> N(0)])}

NuFlat ==
    {Nu("List", vs) : vs \in SeqsUpTo(NuElems, MaxLen)}
    \cup {Nu("Record", r) : r \in SeqsUpTo(NuCols \X NuFields, MaxLen)}

NuNested ==
    {Nu("List", <<c>>) : c \in NuFlat}
    \cup {Nu("Record", <<<<<<97>>, c>>>>) : c \in NuFlat}
    \cup {Nu("List", <<Nu("Record", <<<<<<98>>, Nu("List", <<e, o>>)>>>>)>>) :
            e \in NuElems, o \in NuOthers \cup NuFields}

Qualities == {Some(q) : q \in -1..12}

ToInputs ==
    ((NuScalars \cup NuOthers) \X ({None} \cup Qualities))
    \cup ((NuFlat \cup NuNested) \X {None, Some(0), Some(9), Some(11)})

\* payloads of the timestamp extension, by length
Payload4 == {<<0, 0, 0, 0>>, <<0, 0, 0, 1>>, <<255, 255, 255, 255>>, <<88, 104, 70, 127>>}

\* nanoseconds in the 30 high bits, seconds in the 34 low bits
Payload8 ==
    {<<0, 0, 0, 0, 0, 0, 0, 0>>, <<0, 0, 0, 4, 0, 0, 0, 1>>, <<0, 0, 0, 1, 0, 0, 0, 0>>,
     <<238, 107, 39, 255, 255, 255, 255, 255>>, <<238, 107, 40, 0, 88, 104, 70, 127>>,
     <<238, 107, 40, 0, 0, 0, 0, 0>>, <<255, 255, 255, 255, 255, 255, 255, 255>>}

PayloadNanos ==
    {<<0, 0, 0, 0>>, <<0, 0, 0, 1>>, <<59, 154, 201, 255>>, <<59, 154, 202, 0>>,
     <<119, 53, 147, 255>>, <<119, 53, 148, 0>>, <<255, 255, 255, 255>>}

PayloadSecs ==
    {<<0, 0, 0, 0, 0, 0, 0, 0>>, <<0, 0, 0, 0, 0, 0, 0, 1>>,
     <<255, 255, 255, 255, 255, 255, 255, 255>>, <<0, 0, 0, 0, 255, 255, 255, 255>>,
     <<0, 0, 0, 1, 0, 0, 0, 0>>, <<0, 0, 7, 119, 154, 10, 107, 127>>,
     <<255, 255, 248, 107, 115, 13, 238, 0>>, <<0, 0, 7, 119, 154, 10, 107, 128>>,
     <<255, 255, 248, 107, 115, 13, 237, 255>>, <<127, 255, 255, 255, 255, 255, 255, 255>>,
     <<128, 0, 0, 0, 0, 0, 0, 0>>, <<0, 0, 0, 0, 88, 104, 70, 127>>}

Payload12 == {n \o sec : n \in PayloadNanos, sec \in PayloadSecs}

PayloadOther ==
    {<<>>, <<0>>, <<0, 0, 0, 0, 0>>, <<0, 0, 0, 0, 0, 0, 0, 0, 0, 0, 0, 0, 0>>}

Payloads == Payload4 \cup Payload8 \cup Payload12 \cup PayloadOther

ExtTags == {-128, -2, 0, 1, 127}

\* payloads of the other extensions: empty, two bytes, four bytes as a timestamp has,
\* and a brotli stream
ExtPayloads == {<<>>, <<1, 2>>, <<0, 0, 0, 1>>, <<16, 1, 97>>}

RmpvScalars ==
    {Rmpv("rmpv.Nil", <<>>), Rmpv("rmpv.Boolean", TRUE), Rmpv("rmpv.Boolean", FALSE)}
    \cup {Rmpv("rmpv.Integer", n) : n \in IntSamples \cup {TwoPow63, U64Max}}
    \cup {Rmpv("rmpv.F32", f) : f \in F32Samples}
    \cup {Rmpv("rmpv.F64", f) : f \in F64Samples}
    \cup {Rmpv("rmpv.String", b) : b \in TextSamples \cup BadTextSamples}
    \cup {Rmpv("rmpv.Binary", b) : b \in BinarySamples}
    \cup {Rmpv("rmpv.Ext", [tag |-> -1, data |-> b]) : b \in Payloads}
    \cup {Rmpv("rmpv.Ext", [tag |-> g, data |-> b]) : g \in ExtTags, b \in ExtPayloads}

RmpvElems ==
    {Rmpv("rmpv.Integer", N(1)), Rmpv("rmpv.String", <<97>>), Rmpv("rmpv.Binary", <<255>>),
     Rmpv("rmpv.Binary", <<16, 1, 97>>), Rmpv("rmpv.F32", <<3, -1>>),
     Rmpv("rmpv.Integer", TwoPow63),
     Rmpv("rmpv.Ext", [tag |-> -1, data |-> <<0, 0, 0, 1>>])}

\* keys and values of the maps with repeated keys
RmpvCols == {Rmpv("rmpv.String", <<97>>), Rmpv("rmpv.String", <<98>>)}

RmpvFields == {Rmpv("rmpv.Integer", N(1)), Rmpv("rmpv.Integer", N(2)), Rmpv("rmpv.Integer", N(3))}

RmpvFlat ==
    {Rmpv("rmpv.Array", vs) : vs \in SeqsUpTo(RmpvElems, MaxLen)}
    \cup {Rmpv("rmpv.Map", m) : m \in SeqsUpTo(RmpvCols \X RmpvFields, MaxLen)}

\* maps whose keys are of every kind, alone and in pairs that may coerce alike
RmpvKeys ==
    RmpvScalars
    \cup {Rmpv("rmpv.Array", <<>>), Rmpv("rmpv.Map", <<>>),
          Rmpv("rmpv.Array", <<Rmpv("rmpv.Integer", TwoPow63)>>)}

RmpvAlike ==
    {Rmpv("rmpv.String", <<49>>), Rmpv("rmpv.Integer", N(1)), Rmpv("rmpv.Binary", <<49>>),
     Rmpv("rmpv.Binary", <<16, 1, 49>>), Rmpv("rmpv.String", <<98>>),
     Rmpv("rmpv.Integer", N(16777217)), Rmpv("rmpv.F64", <<16777217, 0>>),
     Rmpv("rmpv.F32", <<3, -1>>), Rmpv("rmpv.Nil", <<>>)}

RmpvKeyed ==
    {Rmpv("rmpv.Map", <<<<k, v>>>>) : k \in RmpvKeys, v \in RmpvElems}
    \cup {Rmpv("rmpv.Map", <<<<k1, Rmpv("rmpv.Integer", N(1))>>,
                            <<Rmpv("rmpv.String", <<97>>), Rmpv("rmpv.Integer", N(2))>>,
                            <<k2, Rmpv("rmpv.Integer", N(3))>>>>) :
            k1 \in RmpvAlike, k2 \in RmpvAlike}

RmpvNested ==
    {Rmpv("rmpv.Array", <<c>>) : c \in RmpvFlat \cup RmpvKeyed}
    \cup {Rmpv("rmpv.Map", <<<<Rmpv("rmpv.String", <<97>>), c>>>>) : c \in RmpvFlat}
    \cup {Rmpv("rmpv.Array",
               <<Rmpv("rmpv.Map", <<<<Rmpv("rmpv.String", <<98>>),
                                      Rmpv("rmpv.Array", <<e, x>>)>>>>)>>) :
            e \in RmpvElems, x \in RmpvScalars}

\* bytes that rmpv::decode::read_value_ref rejects
Malformed == <<"malformed", <<>>>>

FromInputs == RmpvScalars \cup RmpvFlat \cup RmpvKeyed \cup RmpvNested \cup {Malformed}

(***************************************************************************)
(* The commands.  rmpv::encode::write_value and read_value_ref carry the   *)
(* rmpv value between the commands as MessagePack bytes.                   *)
(***************************************************************************)
NoResult == Err("none")

Init ==
    /\ pc = "idle"
    /\ input = NoValue
    /\ to_brotli = None
    /\ from_brotli = FALSE
    /\ msgpack_value = NoResult
    /\ output = NoResult

\* ToMsgpack::run on a value from the shell
ToMsgpack ==
    /\ pc = "idle"
    /\ \E in \in ToInputs :
        /\ input' = in[1]
        /\ to_brotli' = in[2]
        /\ msgpack_value' = nu_to_rmpv(in[1], in[2])
    /\ pc' = "to"
    /\ UNCHANGED <<from_brotli, output>>

\* FromMsgpack::run on bytes from the shell
FromMsgpack ==
    /\ pc = "idle"
    /\ \E value \in FromInputs, d \in BOOLEAN :
        /\ input' = value
        /\ from_brotli' = d
        /\ msgpack_value' = IF value = Malformed THEN Err("Invalid msgpack") ELSE Ok(value)
        /\ output' = IF value = Malformed THEN Err("Invalid msgpack")
                     ELSE rmpv_to_nu(value, d)
    /\ pc' = "from"
    /\ UNCHANGED to_brotli

\* `... | to msgpack | from msgpack`: FromMsgpack::run on what ToMsgpack::run returned
PipeFromMsgpack ==
    /\ pc = "to"
    /\ IsOk(msgpack_value)
    /\ \E d \in BOOLEAN :
        /\ from_brotli' = d
        /\ output' = rmpv_to_nu(msgpack_value[2], d)
    /\ pc' = "to_from"
    /\ UNCHANGED <<input, to_brotli, msgpack_value>>

\* `... | from msgpack | to msgpack`: ToMsgpack::run on what FromMsgpack::run returned
PipeToMsgpack ==
    /\ pc = "from"
    /\ IsOk(output)
    /\ \E c \in {None, Some(9)} :
        /\ to_brotli' = c
        /\ msgpack_value' = nu_to_rmpv(output[2], c)
    /\ pc' = "from_to"
    /\ UNCHANGED <<input, from_brotli, output>>

Next ==
    \/ ToMsgpack
    \/ FromMsgpack
    \/ PipeFromMsgpack
    \/ PipeToMsgpack

Spec == Init /\ [][Next]_vars

(***************************************************************************)
(* Properties                                                              *)
(***************************************************************************)
Distinct(seq) == \A i, j \in 1..Len(seq) : i # j => seq[i] # seq[j]

Cols(record) == [i \in 1..Len(record) |-> record[i][1]]

\* a value built only from Bool, Int, Float, String, Binary, List, Record (unique
\* columns) and Date
RECURSIVE PlainData(_)
PlainData(v) ==
    CASE v[1] \in {"Bool", "Int", "Float", "String", "Binary", "Date"} -> TRUE
      [] v[1] = "List" -> \A i \in 1..Len(v[2]) : PlainData(v[2][i])
      [] v[1] = "Record" ->
            Distinct(Cols(v[2])) /\ \A i \in 1..Len(v[2]) : PlainData(v[2][i][2])
      [] OTHER -> FALSE

\* C1: a value built only from Bool, Int, Float, String, Binary, List, Record and
\* Date encodes without compression, and decoding the result without decompression
\* succeeds and yields the value back: same variants, same order of list elements and
\* of record columns, the same instant for a Date in either timestamp form.
C1_ValueRoundTrip ==
    (pc \in {"to", "to_from"} /\ to_brotli = None /\ PlainData(input)) =>
        /\ IsOk(msgpack_value)
        /\ (pc = "to_from" /\ from_brotli = FALSE) => output = Ok(input)

\* a record of a four-byte date (1 s) and a twelve-byte date (-1 s, 1 ns) in a list
C1_Witness ==
    /\ pc = "to_from" /\ to_brotli = None /\ from_brotli = FALSE
    /\ input = Nu("List", <<Nu("Record",
                    <<<<<<98>>, Nu("List", <<Nu("Date", [secs |-> N(-1), nanos |-> N(1)]),
                                             Nu("Date", [secs |-> N(1), nanos |-> N(0)])>>)>>>>)>>)
    /\ output = Ok(input)

\* a <= b for two 8-byte two's complement words
SignedBytesLeq(a, b) ==
    IF (a[1] >= 128) # (b[1] >= 128) THEN a[1] >= 128 ELSE MagLeq(a, b)

\* the second of the minute of an 8-byte two's complement count of seconds
\* (2^64 = 16 mod 60)
SecondOfMinute(sec) == (MagMod(sec, 60, 0) + (IF sec[1] >= 128 THEN 44 ELSE 0)) % 60

\* a 12-byte payload names an instant chrono holds: seconds within
\* -8334601228800 ..= 8210266876799, nanoseconds below 10^9, or below 2 * 10^9 on
\* second 59 (a leap second)
Representable12(p) ==
    LET n == SubSeq(p, 1, 4)
        sec == SubSeq(p, 5, 12)
    IN /\ SignedBytesLeq(<<255, 255, 248, 107, 115, 13, 238, 0>>, sec)
       /\ SignedBytesLeq(sec, <<0, 0, 7, 119, 154, 10, 107, 127>>)
       /\ \/ MagLess(n, <<59, 154, 202, 0>>)
          \/ MagLess(n, <<119, 53, 148, 0>>) /\ SecondOfMinute(sec) = 59

\* a 12-byte payload that the 4-byte form could not hold
Minimal12(p) == SubSeq(p, 1, 8) # <<0, 0, 0, 0, 0, 0, 0, 0>>

\* the wire values the amended C2 covers
RECURSIVE WireExact(_)
WireExact(w) ==
    CASE w[1] \in {"rmpv.Nil", "rmpv.Boolean", "rmpv.F64", "rmpv.Binary"} -> TRUE
      [] w[1] = "rmpv.Integer" -> NumLeq(w[2], I64Max)
      [] w[1] = "rmpv.String" -> IsUtf8(w[2])
      [] w[1] = "rmpv.Array" -> \A i \in 1..Len(w[2]) : WireExact(w[2][i])
      [] w[1] = "rmpv.Map" ->
            /\ Distinct(Cols(w[2]))
            /\ \A i \in 1..Len(w[2]) :
                /\ w[2][i][1][1] = "rmpv.String"
                /\ IsUtf8(w[2][i][1][2])
                /\ WireExact(w[2][i][2])
      [] w[1] = "rmpv.Ext" ->
            /\ w[2].tag = -1
            /\ \/ Len(w[2].data) = 4
               \/ Len(w[2].data) = 12 /\ Minimal12(w[2].data) /\ Representable12(w[2].data)
      [] OTHER -> FALSE

\* the wire values C2 as written admits: no extension but -1 (of length 4, 8 or 12),
\* no repeated map key, no brotli stream in a binary, strings of UTF-8
RECURSIVE WireAdmitted(_)
WireAdmitted(w) ==
    CASE w[1] \in {"rmpv.Nil", "rmpv.Boolean", "rmpv.Integer", "rmpv.F32", "rmpv.F64"} -> TRUE
      [] w[1] = "rmpv.String" -> IsUtf8(w[2])
      [] w[1] = "rmpv.Binary" -> ~BrotliDecompress(w[2]).ok
      [] w[1] = "rmpv.Array" -> \A i \in 1..Len(w[2]) : WireAdmitted(w[2][i])
      [] w[1] = "rmpv.Map" ->
            /\ Distinct(Cols(w[2]))
            /\ \A i \in 1..Len(w[2]) : WireAdmitted(w[2][i][1]) /\ WireAdmitted(w[2][i][2])
      [] w[1] = "rmpv.Ext" -> w[2].tag = -1 /\ Len(w[2].data) \in {4, 8, 12}
      [] OTHER -> FALSE

\* C2 as written: a wire value with no extension but -1, no repeated map key and no
\* brotli stream, once decoded without decompression and encoded without compression,
\* is the wire value again, Float32 values, maps with other keys than strings and
\* timestamps of 4, 8 and 12 bytes included.
C2_AsWritten ==
    (pc = "from_to" /\ from_brotli = FALSE /\ to_brotli = None /\ WireAdmitted(input)) =>
        msgpack_value = Ok(input)

\* C2, amended: a wire value built from Nil, Boolean, Integer up to i64::MAX, Float64,
\* String of UTF-8, Binary, Array, Map with distinct String keys and Ext(-1) in the
\* form encode emits for an instant the date type holds (4 bytes, or 12 bytes with
\* nanoseconds not 0 or seconds outside 0..2^32-1) decodes without decompression, and
\* encoding the result without compression yields the wire value again.
C2_WireRoundTrip ==
    (pc \in {"from", "from_to"} /\ from_brotli = FALSE /\ WireExact(input)) =>
        /\ IsOk(output)
        /\ (pc = "from_to" /\ to_brotli = None) => msgpack_value = Ok(input)

\* a map in an array, holding a 12-byte timestamp (1 ns, -1 s)
C2_Witness ==
    /\ pc = "from_to" /\ from_brotli = FALSE /\ to_brotli = None
    /\ input = Rmpv("rmpv.Array", <<Rmpv("rmpv.Map", <<<<Rmpv("rmpv.String", <<98>>),
                Rmpv("rmpv.Array", <<Rmpv("rmpv.Integer", N(1)),
                    Rmpv("rmpv.Ext", [tag |-> -1, data |->
                        <<0, 0, 0, 1, 255, 255, 255, 255, 255, 255, 255, 255>>])>>)>>>>)>>)
    /\ msgpack_value = Ok(input)

\* a value built only from String, List and Record (unique columns)
RECURSIVE TextData(_)
TextData(v) ==
    CASE v[1] = "String" -> TRUE
      [] v[1] = "List" -> \A i \in 1..Len(v[2]) : TextData(v[2][i])
      [] v[1] = "Record" ->
            Distinct(Cols(v[2])) /\ \A i \in 1..Len(v[2]) : TextData(v[2][i][2])
      [] OTHER -> FALSE

\* w is v with every String turned into a Binary that decompresses to it, the
\* columns of a Record left as wire Strings
RECURSIVE CompressedForm(_, _)
CompressedForm(v, w) ==
    CASE v[1] = "String" ->
            /\ w[1] = "rmpv.Binary"
            /\ BrotliDecompress(w[2]).ok
            /\ BrotliDecompress(w[2]).val = v[2]
      [] v[1] = "List" ->
            /\ w[1] = "rmpv.Array"
            /\ Len(w[2]) = Len(v[2])
            /\ \A i \in 1..Len(v[2]) : CompressedForm(v[2][i], w[2][i])
      [] v[1] = "Record" ->
            /\ w[1] = "rmpv.Map"
            /\ Len(w[2]) = Len(v[2])
            /\ \A i \in 1..Len(v[2]) :
                /\ w[2][i][1] = Rmpv("rmpv.String", v[2][i][1])
                /\ CompressedForm(v[2][i][2], w[2][i][2])

\* C3: with a quality in 0..11, a String encodes to a wire Binary holding its brotli
\* stream, never to a wire String, also when nested in Lists and as Record values,
\* the columns staying wire Strings; decoding with decompression gives the value back.
C3_CompressionRoundTrip ==
    (pc \in {"to", "to_from"} /\ to_brotli.some /\ to_brotli.val \in 0..11
        /\ TextData(input)) =>
        /\ IsOk(msgpack_value)
        /\ CompressedForm(input, msgpack_value[2])
        /\ (pc = "to_from" /\ from_brotli = TRUE) => output = Ok(input)

\* { a: ["a", "a"] } at quality 9
C3_Witness ==
    /\ pc = "to_from" /\ to_brotli = Some(9) /\ from_brotli = TRUE
    /\ input = Nu("Record", <<<<<<97>>, Nu("List", <<Nu("String", <<97>>),
                                                    Nu("String", <<97>>)>>)>>>>)
    /\ msgpack_value[2][2][1][2][2][1][1] = "rmpv.Binary"
    /\ output = Ok(input)

\* v is w decoded with every Binary kept: a Binary that is no brotli stream, or any
\* Binary without decompression, stands in v with the same bytes
RECURSIVE LenientForm(_, _, _)
LenientForm(w, v, d) ==
    CASE w[1] = "rmpv.Binary" ->
            IF d /\ BrotliDecompress(w[2]).ok THEN v[1] = "String"
            ELSE v = Nu("Binary", w[2])
      [] w[1] = "rmpv.Array" ->
            /\ v[1] = "List"
            /\ Len(v[2]) = Len(w[2])
            /\ \A i \in 1..Len(w[2]) : LenientForm(w[2][i], v[2][i], d)
      [] w[1] = "rmpv.Map" ->
            /\ v[1] = "Record"
            /\ Len(v[2]) = Len(w[2]) =>
                    \A i \in 1..Len(w[2]) : LenientForm(w[2][i][2], v[2][i][2], d)
      [] OTHER -> TRUE

\* C4: with decompression asked, a wire Binary that is no brotli stream decodes, at
\* any depth, to a Binary of the same bytes; a decode that fails with decompression
\* fails without it too; without decompression every wire Binary decodes to a Binary
\* of the same bytes.
C4_LenientDecompression ==
    (pc = "from" /\ input # Malformed) =>
        /\ IsOk(output) => LenientForm(input, output[2], from_brotli)
        /\ (from_brotli /\ ~IsOk(output)) => ~IsOk(rmpv_to_nu(input, FALSE))
        /\ input[1] = "rmpv.Binary" => IsOk(output)

\* [[0xFF, "a"]] decoded with decompression asked: the stream becomes a String, the
\* other Binary stays
C4_Witness ==
    /\ pc = "from" /\ from_brotli = TRUE
    /\ input = Rmpv("rmpv.Array", <<Rmpv("rmpv.Array",
                    <<Rmpv("rmpv.Binary", <<255>>), Rmpv("rmpv.Binary", <<16, 1, 97>>)>>)>>)
    /\ output = Ok(Nu("List", <<Nu("List",
                    <<Nu("Binary", <<255>>), Nu("String", <<97>>)>>)>>))

\* a + b + carry = 0 modulo 256^Len(a)
RECURSIVE SumIsZero(_, _, _)
SumIsZero(a, b, carry) ==
    IF Len(a) = 0 THEN TRUE
    ELSE LET n == Len(a)
             sum == a[n] + b[n] + carry
         IN sum % 256 = 0
            /\ SumIsZero(SubSeq(a, 1, n - 1), SubSeq(b, 1, n - 1), sum \div 256)

\* p is the big-endian unsigned 32-bit form of n
IsBigEndian32(p, n) == ~n.neg /\ n.mag = <<0, 0, 0, 0>> \o p

\* p is the big-endian two's complement 64-bit form of s
IsBigEndian64(p, s) ==
    IF s.neg THEN p[1] >= 128 /\ SumIsZero(p, s.mag, 0)
    ELSE p[1] < 128 /\ p = s.mag

\* C5: a Date of s seconds and n nanoseconds encodes to Ext(-1, payload), the payload
\* being the 4-byte big-endian unsigned s exactly when n = 0 and 0 <= s <= 2^32-1,
\* and else the 12 bytes of big-endian unsigned 32-bit n and big-endian signed 64-bit
\* s; never 8 bytes.
C5_DateEncodingForm ==
    (pc \in {"to", "to_from"} /\ input[1] = "Date") =>
        LET sec == input[2].secs
            n == input[2].nanos
            p == msgpack_value[2][2].data
        IN /\ IsOk(msgpack_value)
           /\ msgpack_value[2][1] = "rmpv.Ext"
           /\ msgpack_value[2][2].tag = -1
           /\ IF n = N(0) /\ NumLeq(N(0), sec) /\ NumLeq(sec, U32Max)
              THEN Len(p) = 4 /\ IsBigEndian32(p, sec)
              ELSE /\ Len(p) = 12
                   /\ IsBigEndian32(SubSeq(p, 1, 4), n)
                   /\ IsBigEndian64(SubSeq(p, 5, 12), sec)

\* 2^32 seconds, no nanoseconds: the first instant past the 4-byte form
C5_Witness ==
    /\ pc = "to"
    /\ input = Nu("Date", [secs |-> TwoPow32, nanos |-> N(0)])
    /\ msgpack_value = Ok(Rmpv("rmpv.Ext",
            [tag |-> -1, data |-> <<0, 0, 0, 0, 0, 0, 0, 1, 0, 0, 0, 0>>]))

\* b * k + carry modulo 256^Len(b)
RECURSIVE MagTimes(_, _, _)
MagTimes(b, k, carry) ==
    IF Len(b) = 0 THEN <<>>
    ELSE LET n == Len(b)
             prod == b[n] * k + carry
         IN Append(MagTimes(SubSeq(b, 1, n - 1), k, prod \div 256), prod % 256)

\* a payload of 4, 8 or 12 bytes names an instant the date type holds
RepresentablePayload(p) ==
    CASE Len(p) = 4 -> TRUE
      [] Len(p) = 8 ->
            \/ MagLess(p, <<238, 107, 40, 0, 0, 0, 0, 0>>)
            \/ MagMod(<<p[4] % 4, p[5], p[6], p[7], p[8]>>, 60, 0) = 59
      [] Len(p) = 12 -> Representable12(p)

\* the instant d is the one the payload p spells
InstantOf(p, d) ==
    CASE Len(p) = 4 -> d.nanos = N(0) /\ IsBigEndian32(p, d.secs)
      [] Len(p) = 8 ->
            LET high == MagTimes(SubSeq(d.nanos.mag, 5, 8), 4, 0) IN
            /\ ~d.nanos.neg /\ SubSeq(d.nanos.mag, 1, 4) = <<0, 0, 0, 0>>
            /\ d.nanos.mag[5] < 64
            /\ ~d.secs.neg /\ SubSeq(d.secs.mag, 1, 3) = <<0, 0, 0>> /\ d.secs.mag[4] < 4
            /\ p = <<high[1], high[2], high[3], high[4] + d.secs.mag[4]>>
                   \o SubSeq(d.secs.mag, 5, 8)
      [] Len(p) = 12 ->
            /\ IsBigEndian32(SubSeq(p, 1, 4), d.nanos)
            /\ IsBigEndian64(SubSeq(p, 5, 12), d.secs)

\* C6: Ext(-1, payload) decodes for the lengths 4, 8 and 12 and fails with "Invalid
\* timestamp length" for every other; 4 bytes are big-endian u32 seconds, 8 bytes a
\* big-endian word of 30 high bits of nanoseconds and 34 low bits of seconds, 12 bytes
\* big-endian u32 nanoseconds then big-endian i64 seconds; the result is the Date of
\* that instant, or "Timestamp out of range" when the date type does not hold it.
C6_TimestampDecoding ==
    (pc = "from" /\ input[1] = "rmpv.Ext" /\ input[2].tag = -1) =>
        LET p == input[2].data IN
        IF Len(p) \notin {4, 8, 12} THEN output = Err("Invalid timestamp length")
        ELSE IF RepresentablePayload(p)
             THEN IsOk(output) /\ output[2][1] = "Date" /\ InstantOf(p, output[2][2])
             ELSE output = Err("Timestamp out of range")

\* the 8-byte form of the leap second 2016-12-31T23:59:60Z
C6_Witness ==
    /\ pc = "from"
    /\ input = Rmpv("rmpv.Ext", [tag |-> -1, data |-> <<238, 107, 40, 0, 88, 104, 70, 127>>])
    /\ output = Ok(Nu("Date", [secs |-> LeapSecond, nanos |-> N(1000000000)]))

\* the wire value holds, at any depth, an Integer above i64::MAX
RECURSIVE HoldsBigInteger(_)
HoldsBigInteger(w) ==
    CASE w[1] = "rmpv.Integer" -> NumLess(I64Max, w[2])
      [] w[1] = "rmpv.Array" -> \E i \in 1..Len(w[2]) : HoldsBigInteger(w[2][i])
      [] w[1] = "rmpv.Map" ->
            \E i \in 1..Len(w[2]) : HoldsBigInteger(w[2][i][1]) \/ HoldsBigInteger(w[2][i][2])
      [] OTHER -> FALSE

\* C7: a wire Integer within -2^63 .. 2^63-1 decodes to the Int of the same value;
\* a wire Integer above i64::MAX makes the decode fail with "Integer overflow", alone
\* or inside an Array or a Map; none is decoded to another value.
C7_IntegerRange ==
    (pc = "from" /\ input # Malformed) =>
        /\ input[1] = "rmpv.Integer" =>
            IF NumLeq(I64Min, input[2]) /\ NumLeq(input[2], I64Max)
            THEN output = Ok(Nu("Int", input[2]))
            ELSE output = Err("Integer overflow")
        /\ HoldsBigInteger(input) => ~IsOk(output)

\* 2^63, one above i64::MAX
C7_Witness ==
    /\ pc = "from"
    /\ input = Rmpv("rmpv.Integer", TwoPow63)
    /\ output = Err("Integer overflow")

\* the column the key of pair i of a map becomes, and the value of pair i decoded
KeyText(map, i, d) == coerce_string(rmpv_to_nu(map[i][1], d)[2])[2]

FieldValue(map, i, d) == rmpv_to_nu(map[i][2], d)[2]

\* C8: a wire Map in which several pairs carry the same key, once coerced, decodes
\* to a Record with exactly one entry for that key, whose value is the decoded value
\* of the last of those pairs; no Record has two entries of one key.
C8_LastWriteWins ==
    (pc = "from" /\ input[1] = "rmpv.Map" /\ IsOk(output)) =>
        LET map == input[2]
            record == output[2][2]
        IN /\ output[2][1] = "Record"
           /\ Distinct(Cols(record))
           /\ \A j \in 1..Len(record) :
                \E i \in 1..Len(map) : KeyText(map, i, from_brotli) = record[j][1]
           /\ \A i \in 1..Len(map) :
                (\A l \in (i + 1)..Len(map) :
                    KeyText(map, l, from_brotli) # KeyText(map, i, from_brotli)) =>
                \E j \in 1..Len(record) :
                    record[j] = <<KeyText(map, i, from_brotli),
                                  FieldValue(map, i, from_brotli)>>

\* ("a", 1) then ("a", 2)
C8_Witness ==
    /\ pc = "from"
    /\ input = Rmpv("rmpv.Map", <<<<Rmpv("rmpv.String", <<97>>), Rmpv("rmpv.Integer", N(1))>>,
                                  <<Rmpv("rmpv.String", <<97>>), Rmpv("rmpv.Integer", N(2))>>>>)
    /\ output = Ok(Nu("Record", <<<<<<97>>, Nu("Int", N(2))>>>>))

\* the keys of a map, coerced, each kept where it occurs last, or first
RECURSIVE LastOccurrences(_, _, _)
LastOccurrences(map, i, d) ==
    IF i > Len(map) THEN <<>>
    ELSE IF \E l \in (i + 1)..Len(map) : KeyText(map, l, d) = KeyText(map, i, d)
         THEN LastOccurrences(map, i + 1, d)
         ELSE <<KeyText(map, i, d)>> \o LastOccurrences(map, i + 1, d)

RECURSIVE FirstOccurrences(_, _, _)
FirstOccurrences(map, i, d) ==
    IF i > Len(map) THEN <<>>
    ELSE IF \E l \in 1..(i - 1) : KeyText(map, l, d) = KeyText(map, i, d)
         THEN FirstOccurrences(map, i + 1, d)
         ELSE <<KeyText(map, i, d)>> \o FirstOccurrences(map, i + 1, d)

\* C9 as written: the entry kept for a repeated key sits where the key occurs last
\* in the wire Map, relative to the other keys.
C9_AsWritten ==
    (pc = "from" /\ input[1] = "rmpv.Map" /\ IsOk(output)) =>
        Cols(output[2][2]) = LastOccurrences(input[2], 1, from_brotli)

\* C9, amended: the entry kept for a repeated key sits where the key occurs first
\* in the wire Map, relative to the other keys (and holds the value of the last
\* occurrence): ("a", 1), ("b", 2), ("a", 3) decode to the columns a, b.
C9_FirstPosition ==
    (pc = "from" /\ input[1] = "rmpv.Map" /\ IsOk(output)) =>
        Cols(output[2][2]) = FirstOccurrences(input[2], 1, from_brotli)

\* ("a", 1), ("b", 2), ("a", 3)
C9_Witness ==
    /\ pc = "from"
    /\ input = Rmpv("rmpv.Map", <<<<Rmpv("rmpv.String", <<97>>), Rmpv("rmpv.Integer", N(1))>>,
                                  <<Rmpv("rmpv.String", <<98>>), Rmpv("rmpv.Integer", N(2))>>,
                                  <<Rmpv("rmpv.String", <<97>>), Rmpv("rmpv.Integer", N(3))>>>>)
    /\ output = Ok(Nu("Record", <<<<<<97>>, Nu("Int", N(3))>>, <<<<98>>, Nu("Int", N(2))>>>>))

\* every column of every Record in v is UTF-8 text
RECURSIVE ColumnsAreText(_)
ColumnsAreText(v) ==
    CASE v[1] = "List" -> \A i \in 1..Len(v[2]) : ColumnsAreText(v[2][i])
      [] v[1] = "Record" ->
            \A i \in 1..Len(v[2]) : IsUtf8(v[2][i][1]) /\ ColumnsAreText(v[2][i][2])
      [] OTHER -> TRUE

\* a wire value that cannot decode by itself
FailsAlone(w) ==
    \/ w[1] = "rmpv.Integer" /\ NumLess(I64Max, w[2])
    \/ w[1] = "rmpv.String" /\ ~IsUtf8(w[2])
    \/ w[1] = "rmpv.Ext" /\ w[2].tag = -1 /\ Len(w[2].data) \notin {4, 8, 12}

\* the wire value holds, as a key, a value or an element at any depth, a value that
\* cannot decode, or a Nil, Array or Map as a key
RECURSIVE HoldsFailure(_)
HoldsFailure(w) ==
    \/ FailsAlone(w)
    \/ w[1] = "rmpv.Array" /\ \E i \in 1..Len(w[2]) : HoldsFailure(w[2][i])
    \/ w[1] = "rmpv.Map" /\ \E i \in 1..Len(w[2]) :
            \/ w[2][i][1][1] \in {"rmpv.Nil", "rmpv.Array", "rmpv.Map"}
            \/ HoldsFailure(w[2][i][1])
            \/ HoldsFailure(w[2][i][2])

\* the text form of the keys drawn that are no strings: 1, -9223372036854775808,
\* 1.5, bytes that spell 1, the epoch second 1
ExpectedColumn(k) ==
    CASE k = Rmpv("rmpv.Integer", N(1)) -> <<49>>
      [] k = Rmpv("rmpv.Integer", I64Min) ->
            <<45, 57, 50, 50, 51, 51, 55, 50, 48, 51, 54, 56, 53, 52, 55, 55, 53, 56, 48, 56>>
      [] k = Rmpv("rmpv.F64", <<3, -1>>) -> <<49, 46, 53>>
      [] k = Rmpv("rmpv.F32", <<3, -1>>) -> <<49, 46, 53>>
      [] k = Rmpv("rmpv.Binary", <<49>>) -> <<49>>
      [] k = Rmpv("rmpv.Ext", [tag |-> -1, data |-> <<0, 0, 0, 1>>]) ->
            <<49, 57, 55, 48, 45, 48, 49, 45, 48, 49, 84, 48, 48, 58, 48, 48, 58, 48, 49,
              46, 48, 48, 48, 90>>
      [] k[1] = "rmpv.String" -> k[2]
      [] OTHER -> <<>>

\* C10: every column of a decoded Record is a string; a key that is no String is
\* replaced by its text form; a key with no text form (Nil, Array, Map), or a key,
\* value or element that fails to decode, makes the whole decode return an error,
\* which carries no List or Record.
C10_KeyCoercionFailFast ==
    (pc = "from" /\ input # Malformed) =>
        /\ IsOk(output) => ColumnsAreText(output[2])
        /\ HoldsFailure(input) => ~IsOk(output)
        /\ ~IsOk(output) =>
              output[2] \in {"Integer overflow", "Invalid UTF-8", "Invalid timestamp length",
                             "Timestamp out of range", "Can't convert to string"}
        /\ (/\ input[1] = "rmpv.Map" /\ Len(input[2]) = 1 /\ IsOk(output)
            /\ ExpectedColumn(input[2][1][1]) # <<>>) =>
              Cols(output[2][2]) = <<ExpectedColumn(input[2][1][1])>>

\* a map whose second key is Nil, after a pair that decodes
C10_Witness ==
    /\ pc = "from"
    /\ input = Rmpv("rmpv.Map", <<<<Rmpv("rmpv.Integer", N(1)), Rmpv("rmpv.Integer", N(1))>>,
                                  <<Rmpv("rmpv.String", <<97>>), Rmpv("rmpv.Integer", N(2))>>,
                                  <<Rmpv("rmpv.Nil", <<>>), Rmpv("rmpv.Integer", N(3))>>>>)
    /\ output = Err("Can't convert to string")

\* ---------------------------------------------------------------------------
\* Extensions with a tag other than -1
\* ---------------------------------------------------------------------------

IsUnknownExt(w) == w[1] = "rmpv.Ext" /\ w[2].tag # -1

\* the Record with the fields ext_type and data, in that order, for tag g and payload b
IsExtRecord(v, g, b) ==
    /\ v[1] = "Record"
    /\ Len(v[2]) = 2
    /\ v[2][1][1] = <<101, 120, 116, 95, 116, 121, 112, 101>>
    /\ v[2][1][2][1] = "Int"
    /\ v[2][1][2][2].neg = (g < 0)
    /\ MagToInt(v[2][1][2][2].mag, 0) = (IF g < 0 THEN -g ELSE g)
    /\ v[2][2][1] = <<100, 97, 116, 97>>
    /\ v[2][2][2] = Nu("Binary", b)

\* the Map with the String keys ext_type and data that holds the fields of record v
IsExtMap(w, v) ==
    /\ w[1] = "rmpv.Map"
    /\ Len(w[2]) = 2
    /\ w[2][1] = <<Rmpv("rmpv.String", <<101, 120, 116, 95, 116, 121, 112, 101>>),
                   Rmpv("rmpv.Integer", v[2][1][2][2])>>
    /\ w[2][2] = <<Rmpv("rmpv.String", <<100, 97, 116, 97>>),
                   Rmpv("rmpv.Binary", v[2][2][2][2])>>

\* every extension of another tag that wire value w holds as an element of an Array or
\* as the value of a Map of one pair stands in v, the decoded w, as its Record
RECURSIVE ExtsDecoded(_, _)
ExtsDecoded(w, v) ==
    CASE IsUnknownExt(w) -> IsExtRecord(v, w[2].tag, w[2].data)
      [] w[1] = "rmpv.Array" ->
            /\ v[1] = "List"
            /\ Len(v[2]) = Len(w[2])
            /\ \A i \in 1..Len(w[2]) : ExtsDecoded(w[2][i], v[2][i])
      [] w[1] = "rmpv.Map" /\ Len(w[2]) = 1 ->
            /\ v[1] = "Record"
            /\ Len(v[2]) = 1
            /\ ExtsDecoded(w[2][1][2], v[2][1][2])
      [] OTHER -> TRUE

\* the wire value holds, at any depth, an extension of a tag other than -1
RECURSIVE HoldsUnknownExt(_)
HoldsUnknownExt(w) ==
    \/ IsUnknownExt(w)
    \/ w[1] = "rmpv.Array" /\ \E i \in 1..Len(w[2]) : HoldsUnknownExt(w[2][i])
    \/ w[1] = "rmpv.Map" /\ \E i \in 1..Len(w[2]) :
            HoldsUnknownExt(w[2][i][1]) \/ HoldsUnknownExt(w[2][i][2])

\* C11: decoding an Ext whose tag is not -1 never fails, with or without the
\* decompress flag, and gives a Record of exactly the two fields ext_type = Int(tag),
\* the sign kept within -128..127, and data = Binary(payload), byte for byte and in
\* that order, also where the Ext is an element of an Array or the value of a Map;
\* encoding that Record back, compressed or not, gives a Map with the two String keys
\* ext_type and data, so the encoded value holds no such Ext at any depth and differs
\* from the wire value that was decoded.
C11_UnrecognizedExtOneWay ==
    (pc \in {"from", "from_to"} /\ input # Malformed) =>
        /\ IsUnknownExt(input) =>
              /\ input[2].tag \in -128..127
              /\ IsOk(output)
              /\ IsExtRecord(output[2], input[2].tag, input[2].data)
              /\ pc = "from_to" =>
                    /\ IsOk(msgpack_value)
                    /\ IsExtMap(msgpack_value[2], output[2])
                    /\ msgpack_value # Ok(input)
        /\ IsOk(output) => ExtsDecoded(input, output[2])
        /\ (pc = "from_to" /\ IsOk(msgpack_value)) => ~HoldsUnknownExt(msgpack_value[2])

\* the extension of tag -128 whose payload is a brotli stream, decoded with the
\* decompress flag and encoded back with compression
C11_Witness ==
    /\ pc = "from_to"
    /\ input = Rmpv("rmpv.Ext", [tag |-> -128, data |-> <<16, 1, 97>>])
    /\ from_brotli
    /\ to_brotli = Some(9)
    /\ msgpack_value =
          Ok(Rmpv("rmpv.Map",
                  << <<Rmpv("rmpv.String", <<101, 120, 116, 95, 116, 121, 112, 101>>),
                       Rmpv("rmpv.Integer", Num(TRUE, <<0, 0, 0, 0, 0, 0, 0, 128>>))>>,
                     <<Rmpv("rmpv.String", <<100, 97, 116, 97>>),
                       Rmpv("rmpv.Binary", <<16, 1, 97>>)>> >>))

====
